---- MODULE Spec2Model ----
(***************************************************************************)
(* analyze_pdf.py: one call of analyze_pdf(pdf_path), statement by          *)
(* statement.  The PDF library (PyPDF2) and the file system are the         *)
(* environment: what they return, and whether they raise, is chosen         *)
(* nondeterministically.  The standard output is the sequence `out`, one    *)
(* element per print call; a printed line is the sequence of the pieces     *)
(* its f-string is built from (literal parts, formatted values, and the     *)
(* characters of the extracted text).                                       *)
(***************************************************************************)
EXTENDS Integers, Sequences, FiniteSets, TLC

VARIABLES pdf_path, fileExists, pc, pdf_file, reader, text, non_whitespace,
          exc, out

vars == <<pdf_path, fileExists, pc, pdf_file, reader, text, non_whitespace,
          exc, out>>

----------------------------------------------------------------------------
(* Bounds of the model *)

MaxPages    == 1      \* page counts 0..MaxPages
MaxShortLen == 16     \* short extracted texts have 0..MaxShortLen characters
MaxOver     == 2      \* long texts have up to PreviewLen + MaxOver characters
TieLen      == 80     \* a length at which n/len*100 falls halfway between tenths

(* Constants of the program *)

PreviewLen == 200     \* text[:200]
Percent    == 100     \* non_whitespace/len(text)*100
MantBits   == 53      \* significand of a Python float (IEEE 754 double)
LimbBits   == 13      \* limb width of the multi-precision helpers below

----------------------------------------------------------------------------
(* Optional values: None, or a one-element sequence holding the value *)

None == <<>>
Some(v) == <<v>>
Val(o) == o[1]

Min(a, b) == IF a <= b THEN a ELSE b

----------------------------------------------------------------------------
(* Python exception classes and the handler's `except Exception` *)

ExcParent ==
    [ c \in {"Exception", "OSError", "FileNotFoundError", "PermissionError",
             "PyPdfError", "PdfReadError", "LookupError", "IndexError",
             "ValueError"} |->
        CASE c = "Exception"         -> "BaseException"
          [] c = "OSError"           -> "Exception"
          [] c = "FileNotFoundError" -> "OSError"
          [] c = "PermissionError"   -> "OSError"
          [] c = "PyPdfError"        -> "Exception"
          [] c = "PdfReadError"      -> "PyPdfError"
          [] c = "LookupError"       -> "Exception"
          [] c = "IndexError"        -> "LookupError"
          [] c = "ValueError"        -> "Exception" ]

RECURSIVE IsSubclass(_, _)
IsSubclass(c, base) ==
    \/ c = base
    \/ c \in DOMAIN ExcParent /\ IsSubclass(ExcParent[c], base)

CatchesOnlyOSError(cls) == IsSubclass(cls, "OSError")

\* except Exception as e
Catches(cls) == IsSubclass(cls, "Exception")

\* what open(pdf_path, 'rb') can raise
OpenErrors(path, exists) ==
    IF exists
    THEN {[cls |-> "PermissionError",
           args |-> <<"[Errno 13] Permission denied: ", path>>]}
    ELSE {[cls |-> "FileNotFoundError",
           args |-> <<"[Errno 2] No such file or directory: ", path>>]}

\* what a call into the PDF library can raise
LibErrors ==
    {[cls |-> "PdfReadError", args |-> <<"EOF marker not found">>],
     [cls |-> "ValueError",   args |-> <<"invalid literal">>]}

IndexErr == [cls |-> "IndexError", args |-> <<"sequence index out of range">>]

----------------------------------------------------------------------------
(* The documents the library can present *)

MetaKeys   == {"/PDF", "/Creator", "/Producer"}
MetaValues == {"v1", "v2"}

\* reader.metadata: None, or a (possibly empty) mapping
Metadatas ==
    {None} \cup
    { Some(m) : m \in UNION {[K -> MetaValues] : K \in SUBSET MetaKeys} }

Readers ==
    [numPages : 0..MaxPages, is_encrypted : BOOLEAN, metadata : Metadatas]

AlnumChars == {"a", "b", "c", "1", "2", "3", "é"}
\* "abc123  ###"
SampleText == <<"a", "b", "c", "1", "2", "3", " ", " ", "#", "#", "#">>

\* a text of len characters of which the first k are alphanumeric
MkText(k, len) ==
    [i \in 1..len |->
        IF i <= k THEN <<"a", "1", "é">>[(i % 3) + 1]
                  ELSE <<" ", "#">>[(i % 2) + 1]]

LongLens == (PreviewLen - 1)..(PreviewLen + MaxOver)

Texts ==
    {SampleText}
    \cup {MkText(k, len) : <<k, len>> \in
            {p \in (0..MaxShortLen) \X (0..MaxShortLen) : p[1] <= p[2]}}
    \cup {MkText(k, len) : <<k, len>> \in
            {p \in (0..(PreviewLen + MaxOver)) \X LongLens :
                p[1] \in {0, 1, p[2] \div 2, p[2]}}}
    \cup {MkText(k, TieLen) : k \in {23, 49, 50}}

Paths == {"8.25.25IPanalysis.md.pdf", "other.pdf"}

----------------------------------------------------------------------------
(* Python float arithmetic.  A natural number is a sequence of limbs of     *)
(* LimbBits bits, least significant first; a float is m * 2^x with m below  *)
(* 2^MantBits.  Division, multiplication and formatting round to nearest,   *)
(* ties to even, as IEEE 754 doubles and CPython's float formatting do.     *)

RECURSIVE Pow2(_)
Pow2(e) == IF e = 0 THEN 1 ELSE 2 * Pow2(e - 1)

Base == Pow2(LimbBits)

RECURSIVE Pow2Shift(_, _)
\* least e >= 0 with n * 2^e >= d   (0 < n <= d)
Pow2Shift(n, d) == IF n >= d THEN 0 ELSE 1 + Pow2Shift(2 * n, d)

RECURSIVE Norm(_)
\* a natural number as limbs, least significant first, no leading zero limb
Norm(limbs) ==
    IF limbs # <<>> /\ limbs[Len(limbs)] = 0
    THEN Norm(SubSeq(limbs, 1, Len(limbs) - 1)) ELSE limbs

RECURSIVE SmallBitLen(_)
SmallBitLen(v) == IF v = 0 THEN 0 ELSE 1 + SmallBitLen(v \div 2)

BitLen(limbs) ==
    IF limbs = <<>> THEN 0
    ELSE LimbBits * (Len(limbs) - 1) + SmallBitLen(limbs[Len(limbs)])

Bit(limbs, i) ==
    IF i \div LimbBits + 1 > Len(limbs) THEN 0
    ELSE (limbs[i \div LimbBits + 1] \div Pow2(i % LimbBits)) % 2

RECURSIVE MulSmall(_, _, _, _)
\* limbs[i..] * k + carry, exactly, for a small integer k
MulSmall(limbs, i, k, carry) ==
    IF i > Len(limbs) THEN (IF carry = 0 THEN <<>> ELSE <<carry>>)
    ELSE <<(limbs[i] * k + carry) % Base>>
         \o MulSmall(limbs, i + 1, k, (limbs[i] * k + carry) \div Base)

RECURSIVE AddSmall(_, _, _)
AddSmall(limbs, i, carry) ==
    IF i > Len(limbs) THEN (IF carry = 0 THEN <<>> ELSE <<carry>>)
    ELSE <<(limbs[i] + carry) % Base>>
         \o AddSmall(limbs, i + 1, (limbs[i] + carry) \div Base)

\* floor(value / 2^k)
ShiftRight(limbs, k) ==
    LET j == k \div LimbBits
        s == k % LimbBits
        hi(i) == IF i + j + 1 <= Len(limbs)
                 THEN (limbs[i + j + 1] % Pow2(s)) * Pow2(LimbBits - s) ELSE 0
    IN  IF j >= Len(limbs) THEN <<>>
        ELSE Norm([i \in 1..(Len(limbs) - j) |-> limbs[i + j] \div Pow2(s) + hi(i)])

\* value / 2^k rounded to an integer, ties to even
RoundShift(limbs, k) ==
    LET q      == ShiftRight(limbs, k)
        half   == k > 0 /\ Bit(limbs, k - 1) = 1
        sticky == \E i \in 0..(k - 2) : Bit(limbs, i) = 1
        odd    == Bit(q, 0) = 1
    IN  IF half /\ (sticky \/ odd) THEN AddSmall(q, 1, 1) ELSE q

\* the double nearest to limbs * 2^x, as [m, x] with m < 2^MantBits
RoundToDouble(limbs, x) ==
    LET k == BitLen(limbs) - MantBits
        r == RoundShift(limbs, k)
    IN  IF k <= 0 THEN [m |-> limbs, x |-> x]
        ELSE IF BitLen(r) > MantBits THEN [m |-> ShiftRight(r, 1), x |-> x + k + 1]
        ELSE [m |-> r, x |-> x + k]

RECURSIVE DivLimbs(_, _, _)
\* the next k limbs of the quotient r/d (r < d), least significant first,
\* followed by the remainder as last element
DivLimbs(r, d, k) ==
    IF k = 0 THEN <<r>>
    ELSE DivLimbs((r * Base) % d, d, k - 1) \o <<(r * Base) \div d>>

FloatZero == [m |-> <<>>, x |-> 0]

\* int / int (true division) for 0 <= n <= d: the double nearest to n/d,
\* as [m, x] standing for m * 2^x
TrueDiv(n, d) ==
    IF n = 0 THEN FloatZero ELSE
    LET e    == Pow2Shift(n, d)
        k    == (MantBits - 1) \div LimbBits
        dl   == DivLimbs(n * Pow2(e) - d, d, k)
        rem  == dl[1]
        q    == Tail(dl) \o <<1>>
        up   == 2 * rem > d \/ (2 * rem = d /\ Bit(q, 0) = 1)
    IN  RoundToDouble(IF up THEN AddSmall(q, 1, 1) ELSE q, 0 - e - (MantBits - 1))

FloatMul(f, k) == RoundToDouble(MulSmall(f.m, 1, k, 0), f.x)

RECURSIVE LimbsToInt(_, _)
LimbsToInt(limbs, i) ==
    IF i > Len(limbs) THEN 0 ELSE limbs[i] + Base * LimbsToInt(limbs, i + 1)

\* the float times 10, rounded to an integer, ties to even
Tenths(f) == LimbsToInt(RoundShift(MulSmall(f.m, 1, 10, 0), 0 - f.x), 1)

\* format(f, ".1f") for 0 <= f
Format1f(f) == <<ToString(Tenths(f) \div 10), ".", ToString(Tenths(f) % 10)>>

----------------------------------------------------------------------------
(* Pure pieces of analyze_pdf *)

\* str(bool)
BoolStr(b) == IF b THEN "True" ELSE "False"

TruthyNotNone(md) == md # None

\* truth value of reader.metadata: None and the empty mapping are false
Truthy(md) == md # None /\ DOMAIN Val(md) # {}

MetaGetIfComplete(m, key, default) ==
    IF DOMAIN m = MetaKeys THEN m[key] ELSE default

\* reader.metadata.get(key, default)
MetaGet(m, key, default) == IF key \in DOMAIN m THEN m[key] ELSE default

HasPagesOrNone(n) == n >= 0

\* len(reader.pages) > 0
HasPages(n) == n > 0

\* s[:stop]
Slice(s, stop) == SubSeq(s, 1, Min(stop, Len(s)))

IsNotSpace(c) == c # " "

\* c.isalnum()
IsAlnum(c) == c \in AlnumChars

\* len([c for c in text if c.isalnum()])
CountAlnum(t) == Len(SelectSeq(t, IsAlnum))

Banner == <<"=== PDF Analysis ===">>

FileLine(path) == <<"File: ", path>>

PagesLine(r) == <<"Pages: ", ToString(r.numPages)>>

EncryptedLine(r) == <<"Is Encrypted: ", BoolStr(r.is_encrypted)>>

VersionLine(m) == <<"PDF Version: ", MetaGet(m, "/PDF", "Unknown")>>

CreatorLine(m) == <<"Creator: ", MetaGet(m, "/Creator", "Unknown")>>

ProducerLine(m) == <<"Producer: ", MetaGet(m, "/Producer", "Unknown")>>

NoMetadataLine == <<"No metadata found">>

TextLengthLine(t) == <<"First page text length: ", ToString(Len(t))>>

PreviewLineWhole(t) == <<"First page text preview: ">> \o t \o <<"...">>

PreviewLine(t) ==
    <<"First page text preview: ">> \o Slice(t, PreviewLen) \o <<"...">>

NonWhitespaceLine(n) == <<"Non-whitespace characters: ", ToString(n)>>

\* the argument of the print call of line 31: the conditional expression
\* chooses between the whole f-string and the bare "0%"
RatioLine(t, n) ==
    IF Len(t) > 0
    THEN <<"Text quality ratio: ">>
         \o Format1f(FloatMul(TrueDiv(n, Len(t)), Percent)) \o <<"%">>
    ELSE <<"0%">>

NoPagesLine == <<"No pages found">>

ErrorLine(e) == <<"Error analyzing PDF: ">> \o e.args

ErrorOutputAlone(o, e) == <<ErrorLine(e)>>

\* the output after the handler's print
ErrorOutput(o, e) == Append(o, ErrorLine(e))

OpenCreates(exists) == TRUE

\* open(pdf_path, 'rb') opens existing files only
OpenSucceeds(exists) == exists

WithExitLeak(h) == h

\* leaving the with block, normally or by an exception, closes the file
WithExit(h) == IF h = "open" THEN "closed" ELSE h

----------------------------------------------------------------------------
(* The call analyze_pdf(pdf_path) *)

Init ==
    /\ pdf_path \in Paths
    /\ fileExists \in BOOLEAN
    /\ pc = "l6"
    /\ pdf_file = "none"
    /\ reader = None
    /\ text = None
    /\ non_whitespace = None
    /\ exc = None
    /\ out = <<>>

\* an exception raised inside the with block unwinds through it to line 35
Raise(e) ==
    /\ exc' = Some(e)
    /\ pdf_file' = WithExit(pdf_file)
    /\ pc' = "l35"
    /\ UNCHANGED <<pdf_path, fileExists, reader, text, non_whitespace, out>>

LibFails == \E e \in LibErrors : Raise(e)

\* a statement that prints one line and goes on
PrintAndGo(line, next) ==
    /\ out' = Append(out, line)
    /\ pc' = next
    /\ UNCHANGED <<pdf_path, fileExists, pdf_file, reader, text,
                   non_whitespace, exc>>

Goto(next) ==
    /\ pc' = next
    /\ UNCHANGED <<pdf_path, fileExists, pdf_file, reader, text,
                   non_whitespace, exc, out>>

\* line 6
OpenFile ==
    /\ pc = "l6"
    /\ \/ /\ OpenSucceeds(fileExists)
          /\ pdf_file' = "open"
          /\ pc' = "l7"
          /\ UNCHANGED exc
       \/ /\ \E e \in OpenErrors(pdf_path, fileExists) : exc' = Some(e)
          /\ pc' = "l35"
          /\ UNCHANGED pdf_file
    /\ UNCHANGED <<pdf_path, fileExists, reader, text, non_whitespace, out>>

\* line 7
ConstructReader ==
    /\ pc = "l7"
    /\ \/ /\ \E r \in Readers : reader' = Some(r)
          /\ pc' = "l9"
          /\ UNCHANGED <<pdf_path, fileExists, pdf_file, text,
                         non_whitespace, exc, out>>
       \/ LibFails

\* lines 9-10
PrintHeader ==
    /\ pc = "l9"
    /\ out' = out \o <<Banner, FileLine(pdf_path)>>
    /\ pc' = "l11"
    /\ UNCHANGED <<pdf_path, fileExists, pdf_file, reader, text,
                   non_whitespace, exc>>

\* line 11
PrintPages ==
    /\ pc = "l11"
    /\ \/ PrintAndGo(PagesLine(Val(reader)), "l12")
       \/ LibFails

\* line 12
PrintEncrypted ==
    /\ pc = "l12"
    /\ \/ PrintAndGo(EncryptedLine(Val(reader)), "l14")
       \/ LibFails

\* line 14
TestMetadata ==
    /\ pc = "l14"
    /\ \/ Goto(IF Truthy(Val(reader).metadata) THEN "l15" ELSE "l19")
       \/ LibFails

\* line 15
PrintVersion ==
    /\ pc = "l15"
    /\ \/ PrintAndGo(VersionLine(Val(Val(reader).metadata)), "l16")
       \/ LibFails

\* line 16
PrintCreator ==
    /\ pc = "l16"
    /\ \/ PrintAndGo(CreatorLine(Val(Val(reader).metadata)), "l17")
       \/ LibFails

\* line 17
PrintProducer ==
    /\ pc = "l17"
    /\ \/ PrintAndGo(ProducerLine(Val(Val(reader).metadata)), "l22")
       \/ LibFails

\* line 19
PrintNoMetadata ==
    /\ pc = "l19"
    /\ PrintAndGo(NoMetadataLine, "l22")

\* line 22
TestPages ==
    /\ pc = "l22"
    /\ \/ Goto(IF HasPages(Val(reader).numPages) THEN "l23" ELSE "l33")
       \/ LibFails

\* lines 23-24
ExtractText ==
    /\ pc = "l23"
    /\ \/ IF Val(reader).numPages > 0
          THEN /\ \E t \in Texts : text' = Some(t)
               /\ pc' = "l25"
               /\ UNCHANGED <<pdf_path, fileExists, pdf_file, reader,
                              non_whitespace, exc, out>>
          ELSE Raise(IndexErr)
       \/ LibFails

\* line 25
PrintTextLength ==
    /\ pc = "l25"
    /\ PrintAndGo(TextLengthLine(Val(text)), "l26")

\* line 26
PrintPreview ==
    /\ pc = "l26"
    /\ PrintAndGo(PreviewLine(Val(text)), "l29")

\* line 29
CountNonWhitespace ==
    /\ pc = "l29"
    /\ non_whitespace' = Some(CountAlnum(Val(text)))
    /\ pc' = "l30"
    /\ UNCHANGED <<pdf_path, fileExists, pdf_file, reader, text, exc, out>>

\* line 30
PrintNonWhitespace ==
    /\ pc = "l30"
    /\ PrintAndGo(NonWhitespaceLine(Val(non_whitespace)), "l31")

\* line 31
PrintRatio ==
    /\ pc = "l31"
    /\ PrintAndGo(RatioLine(Val(text), Val(non_whitespace)), "exit")

\* line 33
PrintNoPages ==
    /\ pc = "l33"
    /\ PrintAndGo(NoPagesLine, "exit")

\* the with block ends normally and the function returns
ExitWith ==
    /\ pc = "exit"
    /\ pdf_file' = WithExit(pdf_file)
    /\ pc' = "returned"
    /\ UNCHANGED <<pdf_path, fileExists, reader, text, non_whitespace,
                   exc, out>>

\* lines 35-36: an exception the handler does not catch leaves the function
HandleException ==
    /\ pc = "l35"
    /\ IF Catches(Val(exc).cls)
       THEN /\ out' = ErrorOutput(out, Val(exc))
            /\ pc' = "returned"
       ELSE /\ pc' = "raised"
            /\ UNCHANGED out
    /\ UNCHANGED <<pdf_path, fileExists, pdf_file, reader, text,
                   non_whitespace, exc>>

Next ==
    \/ OpenFile
    \/ ConstructReader
    \/ PrintHeader
    \/ PrintPages
    \/ PrintEncrypted
    \/ TestMetadata
    \/ PrintVersion
    \/ PrintCreator
    \/ PrintProducer
    \/ PrintNoMetadata
    \/ TestPages
    \/ ExtractText
    \/ PrintTextLength
    \/ PrintPreview
    \/ CountNonWhitespace
    \/ PrintNonWhitespace
    \/ PrintRatio
    \/ PrintNoPages
    \/ ExitWith
    \/ HandleException

Spec == Init /\ [][Next]_vars

----------------------------------------------------------------------------
(* Properties *)

Last(s) == s[Len(s)]

IsErrorLine(line) == line[1] = "Error analyzing PDF: "

FirstPageLabels ==
    {"First page text length: ", "First page text preview: ",
     "Non-whitespace characters: ", "Text quality ratio: ", "0%"}

\* the run went through the whole with block without an exception
CompletedNormally == pc \in {"exit", "returned"} /\ exc = None

\* C1: analyze_pdf never raises to its caller: whatever fails during open,
\* reader construction, page or metadata access or text extraction, the
\* exception ends in the handler and the call returns.
C1_NeverRaises ==
    /\ pc # "raised"
    /\ exc # None => pc \in {"l35", "returned"}

C1_Witness ==
    /\ pc = "returned"
    /\ exc # None
    /\ Val(exc).cls = "PdfReadError"

\* C2: for a nonexistent path the output is one line beginning with
\* "Error analyzing PDF: " and nothing else, and the call returns.
C2_NonexistentPath ==
    ~fileExists =>
        /\ Len(out) <= 1
        /\ \A i \in DOMAIN out : IsErrorLine(out[i])
        /\ pc \in {"l6", "l35", "returned"}
        /\ pc = "returned" => Len(out) = 1

C2_Witness ==
    /\ ~fileExists
    /\ pc = "returned"
    /\ Len(out) = 1

\* C3: when page 0 yields the empty text, the last line printed is
\* "Text quality ratio: 0%" and no exception occurs.
C3_EmptyTextRatioLine ==
    (pc \in {"exit", "returned"} /\ text # None /\ Len(Val(text)) = 0) =>
        /\ exc = None
        /\ Last(out)[1] = "Text quality ratio: "

\* C4: the file is closed in every terminal state and whenever the handler
\* runs; if open itself failed, no file was ever open.
C4_HandleReleased ==
    /\ pc \in {"l35", "returned", "raised"} => pdf_file # "open"
    /\ (pc = "returned" /\ exc = None) => pdf_file = "closed"
    /\ (exc # None /\ IsSubclass(Val(exc).cls, "OSError")) => pdf_file = "none"
    /\ (exc # None /\ ~IsSubclass(Val(exc).cls, "OSError")) =>
            pdf_file = "closed"

C4_Witness ==
    /\ pc = "returned"
    /\ exc # None
    /\ text = None
    /\ Len(out) >= 8
    /\ pdf_file = "closed"

\* C5: with zero pages, text extraction is never reached, none of the
\* first-page lines is printed, and a run without failure ends with
\* "No pages found".
C5_NoPages ==
    (reader # None /\ Val(reader).numPages = 0) =>
        /\ text = None
        /\ pc \notin {"l23", "l25", "l26", "l29", "l30", "l31"}
        /\ \A i \in DOMAIN out : out[i][1] \notin FirstPageLabels
        /\ CompletedNormally => Last(out) = <<"No pages found">>

C5_Witness ==
    /\ reader # None
    /\ Val(reader).numPages = 0
    /\ pc = "returned"
    /\ exc = None

\* C6: for a text of more than 200 characters the preview line is the label,
\* the first 200 characters of the text, and "...".
C6_PreviewTruncation ==
    \A i \in DOMAIN out :
        (out[i][1] = "First page text preview: " /\ Len(Val(text)) > 200) =>
            /\ Len(out[i]) = 202
            /\ \A j \in 1..200 : out[i][j + 1] = Val(text)[j]
            /\ out[i][202] = "..."

C6_Witness ==
    /\ text # None
    /\ Len(Val(text)) > 200
    /\ \E j \in DOMAIN Val(text) : Val(text)[j] = "é"
    /\ \E i \in DOMAIN out : out[i][1] = "First page text preview: "

\* C7: with non-empty metadata lacking "/Creator", the Creator line prints
\* "Unknown" and the PDF Version and Producer lines print the values of
\* their own keys, each "Unknown" only when its own key is absent.
C7_CreatorDefault ==
    (/\ reader # None
     /\ Val(reader).metadata # None
     /\ DOMAIN Val(Val(reader).metadata) # {}
     /\ "/Creator" \notin DOMAIN Val(Val(reader).metadata)) =>
        LET m == Val(Val(reader).metadata)
            own(key) == IF key \in DOMAIN m THEN m[key] ELSE "Unknown"
        IN  /\ \A i \in DOMAIN out :
                /\ out[i][1] = "Creator: " => out[i] = <<"Creator: ", "Unknown">>
                /\ out[i][1] = "PDF Version: " =>
                        out[i] = <<"PDF Version: ", own("/PDF")>>
                /\ out[i][1] = "Producer: " =>
                        out[i] = <<"Producer: ", own("/Producer")>>
            /\ CompletedNormally =>
                /\ out[5][1] = "PDF Version: "
                /\ out[6][1] = "Creator: "
                /\ out[7][1] = "Producer: "

C7_Witness ==
    /\ reader # None
    /\ Val(reader).metadata # None
    /\ DOMAIN Val(Val(reader).metadata) = {"/PDF", "/Producer"}
    /\ pc = "returned"
    /\ exc = None

\* C8: for a non-empty text the ratio line shows the number of tenths
\* nearest to alnum/len*100, as "<int>.<digit>%"; "abc123  ###" gives 54.5%.
C8_QualityRatio ==
    /\ \A i \in DOMAIN out :
        out[i][1] = "Text quality ratio: " =>
            LET t    == Val(text)
                n    == Cardinality({j \in DOMAIN t : t[j] \in AlnumChars})
                d    == Len(t)
                line == out[i]
                near(T) == /\ 2 * (T * d - 1000 * n) <= d
                           /\ 2 * (1000 * n - T * d) <= d
                           /\ line[2] = ToString(T \div 10)
                           /\ line[4] = ToString(T % 10)
            IN  /\ d > 0
                /\ Len(line) = 5
                /\ line[3] = "."
                /\ line[5] = "%"
                /\ near((1000 * n) \div d) \/ near((1000 * n) \div d + 1)
                /\ t = SampleText =>
                      line = <<"Text quality ratio: ", "54", ".", "5", "%">>
    /\ (CompletedNormally /\ text # None /\ Len(Val(text)) > 0) =>
            Last(out)[1] = "Text quality ratio: "

C8_Witness ==
    /\ text = Some(SampleText)
    /\ pc = "returned"
    /\ exc = None
    /\ Last(out) = <<"Text quality ratio: ", "54", ".", "5", "%">>

C9_ErrorLineLast ==
    /\ \A i \in DOMAIN out :
            IsErrorLine(out[i]) => (i = Len(out) /\ exc # None)
    /\ (pc = "returned" /\ exc # None) =>
            (out # <<>> /\ IsErrorLine(Last(out)))

C9_OutputKept ==
    /\ Len(out') >= Len(out)
    /\ SubSeq(out', 1, Len(out)) = out
    /\ (exc # None /\ out' # out) =>
            (Len(out') = Len(out) + 1 /\ IsErrorLine(Last(out')))

\* C9: after a failure the lines already printed stay as they are, nothing
\* but the error line is printed, and the error line is printed once, as
\* the last line of the run.
C9_PartialOutput == []C9_ErrorLineLast /\ [][C9_OutputKept]_vars

C9_Witness ==
    /\ pc = "returned"
    /\ exc # None
    /\ reader # None
    /\ Val(reader).numPages > 0
    /\ Len(out) >= 8
    /\ IsErrorLine(Last(out))

\* C10: a run without failure prints the banner, File, Pages, Is Encrypted,
\* then either the three metadata lines (metadata non-null and non-empty) or
\* "No metadata found", then either the four first-page lines (page count
\* above 0) or "No pages found", and nothing else.
C10_NormalOutput ==
    (pc = "returned" /\ exc = None) =>
        LET r    == Val(reader)
            full == r.metadata # None /\ DOMAIN Val(r.metadata) # {}
            k    == IF full THEN 7 ELSE 5
        IN  /\ Len(out) = k + (IF r.numPages > 0 THEN 4 ELSE 1)
            /\ out[1] = <<"=== PDF Analysis ===">>
            /\ out[2] = <<"File: ", pdf_path>>
            /\ out[3] = <<"Pages: ", ToString(r.numPages)>>
            /\ out[4] = <<"Is Encrypted: ",
                          IF r.is_encrypted THEN "True" ELSE "False">>
            /\ IF full
               THEN /\ out[5][1] = "PDF Version: "
                    /\ out[6][1] = "Creator: "
                    /\ out[7][1] = "Producer: "
               ELSE out[5] = <<"No metadata found">>
            /\ IF r.numPages > 0
               THEN /\ out[k + 1][1] = "First page text length: "
                    /\ out[k + 2][1] = "First page text preview: "
                    /\ out[k + 3][1] = "Non-whitespace characters: "
                    /\ out[k + 4][1] \in {"Text quality ratio: ", "0%"}
               ELSE out[k + 1] = <<"No pages found">>
            /\ \A i \in DOMAIN out : ~IsErrorLine(out[i])

C10_Witness ==
    /\ pc = "returned"
    /\ exc = None
    /\ Val(reader).metadata # None
    /\ DOMAIN Val(Val(reader).metadata) # {}
    /\ Val(reader).numPages > 0
    /\ Len(out) = 11

====
